---------------------------- MODULE Spec2Model ----------------------------
(***************************************************************************)
(* Filer (src/filer.py): the wildcard matcher with its capture table, the  *)
(* rebuild engine and the directory driver.                                *)
(*                                                                         *)
(* Strings are sequences of one-character strings.  Python positions are   *)
(* 0-based; position i of the source is element i+1 of a sequence here.    *)
(* A row of self.table and the buffer self.nn are lists of FNLEN cells     *)
(* that the code clears to '' and then fills from cell 0 upwards without   *)
(* gaps, so each is kept as the sequence of its non-empty cells: a row's   *)
(* cell 0 is the marker, cells 1.. the captured text.                      *)
(* An uncaught Python exception ends the process; it is kept as the value  *)
(* "IndexError" of an exc field and of status.  sys.exit(2) is "exit2".    *)
(* Left out: the command prefix and the quoting of an output line, and the *)
(* OSError branch of os.listdir.                                           *)
(***************************************************************************)
EXTENDS Integers, Sequences, FiniteSets

VARIABLES p, r, include_dots, files, idx, pc, matched, table, nn, nnp,
          stk, qmk, seq_number, msgs, out, status

vars == <<p, r, include_dots, files, idx, pc, matched, table, nn, nnp,
          stk, qmk, seq_number, msgs, out, status>>

FNLEN == 300

TableSize == 10

MaxNameLen == 3

MaxPatLen == 3

MaxTplLen == 3

MaxFiles == 3

-----------------------------------------------------------------------------
(* Strings *)

Rep(s, n) == [i \in 1..n |-> s]

RECURSIVE Concat(_)
Concat(ss) == IF ss = <<>> THEN <<>> ELSE Head(ss) \o Concat(Tail(ss))

Strings(alphabet, n) == UNION {[1..k -> alphabet] : k \in 0..n}

StartsWithDot(fn) == Len(fn) > 0 /\ fn[1] = "."

-----------------------------------------------------------------------------
(* The capture table *)

EmptyTable == [k \in 0..(TableSize - 1) |-> <<>>]

\* clear_table_line, then the marker written to cell 0 of the row
NewLine(tb, tp, marker) == [tb EXCEPT ![tp] = <<marker>>]

\* self.table[tp][sp] = ch on a row whose cells 0..sp-1 are the filled ones
SetCell(tb, tp, sp, ch) ==
    [tb EXCEPT ![tp] = IF sp < Len(@) THEN [@ EXCEPT ![sp + 1] = ch]
                       ELSE Append(@, ch)]

MatchResult(ok, tb, exc) == [ok |-> ok, table |-> tb, exc |-> exc]

RECURSIVE match(_, _, _, _, _, _, _)
RECURSIVE star_expand(_, _, _, _, _, _, _, _)

\* lines 90-91 and the loop of lines 95-106: cell sp of row tp takes fn[fp],
\* the rest is matched from fp+1; on failure fp and sp advance by one
star_expand(fn, pat, fp, pp, tp, sp, tb, dots) ==
    IF sp >= FNLEN THEN MatchResult(FALSE, tb, "IndexError")
    ELSE LET tb1 == SetCell(tb, tp, sp, fn[fp + 1])
             sub == match(fn, pat, fp + 1, pp + 1, tp + 1, tb1, dots)
         IN  IF sub.exc # "none" THEN sub
             ELSE IF sub.ok THEN sub
             ELSE IF fp + 1 >= Len(fn)
                  THEN MatchResult(pp + 1 >= Len(pat), sub.table, "none")
                  ELSE star_expand(fn, pat, fp + 1, pp, tp, sp + 1,
                                   sub.table, dots)

match(fn, pat, fp, pp, tp, tb, dots) ==
    IF StartsWithDot(fn) /\ ~dots THEN MatchResult(FALSE, tb, "none")
    ELSE IF fp >= Len(fn) /\ pp >= Len(pat) THEN MatchResult(TRUE, tb, "none")
    ELSE IF fp >= Len(fn) \/ pp >= Len(pat) THEN MatchResult(FALSE, tb, "none")
    ELSE IF fn[fp + 1] = pat[pp + 1]
         THEN match(fn, pat, fp + 1, pp + 1, tp, tb, dots)
    ELSE IF pat[pp + 1] = "?"
         THEN IF tp >= TableSize THEN MatchResult(FALSE, tb, "IndexError")
              ELSE match(fn, pat, fp + 1, pp + 1, tp + 1,
                         SetCell(NewLine(tb, tp, "?"), tp, 1, fn[fp + 1]), dots)
    ELSE IF pat[pp + 1] = "*"
         THEN IF tp >= TableSize THEN MatchResult(FALSE, tb, "IndexError")
              ELSE star_expand(fn, pat, fp, pp, tp, 1,
                               NewLine(tb, tp, "*"), dots)
    ELSE MatchResult(FALSE, tb, "none")

-----------------------------------------------------------------------------
(* Number and date formatting *)

DigitChars == <<"0", "1", "2", "3", "4", "5", "6", "7", "8", "9">>

IsDigit(c) == \E d \in 0..9 : DigitChars[d + 1] = c

\* int() of a one-character string that is a decimal digit
DigitVal(c) == CHOOSE d \in 0..9 : DigitChars[d + 1] = c

\* str() of a non-negative integer
RECURSIVE str(_)
str(n) == IF n < 10 THEN <<DigitChars[n + 1]>>
          ELSE str(n \div 10) \o <<DigitChars[(n % 10) + 1]>>

\* s.zfill(width) of a string of digits
zfill(s, width) == IF Len(s) >= width THEN s ELSE Rep("0", width - Len(s)) \o s

DateCodes == {"y", "Y", "m", "d", "M", "H", "s", "t"}

\* now.strftime of the format rb_date picks for a date code
strftime(now, code) ==
    CASE code = "y" -> zfill(str(now.Y % 100), 2)
      [] code = "Y" -> zfill(str(now.Y), 4)
      [] code = "m" -> zfill(str(now.m), 2)
      [] code = "d" -> zfill(str(now.d), 2)
      [] code = "M" -> zfill(str(now.M), 2)
      [] code = "H" -> zfill(str(now.H), 2)
      [] code = "s" -> zfill(str(now.Y), 4) \o zfill(str(now.m), 2)
                         \o zfill(str(now.d), 2)
      [] code = "t" -> zfill(str(now.H), 2) \o zfill(str(now.M), 2)

\* values datetime.now() may return
Clocks == {[Y |-> 2026, m |-> 11, d |-> 2, H |-> 9, M |-> 5],
           [Y |-> 1995, m |-> 9, d |-> 22, H |-> 23, M |-> 59]}

-----------------------------------------------------------------------------
(* The rebuild engine.  st is the engine's state during one rebuild call:  *)
(* l (position in r), nn, nnp, stk, qmk, msgs (the diagnostics printed),   *)
(* exc ("none", "exit2" or "IndexError").                                  *)

PatternIndexMsg == "Filer: Pattern index must be 1-9!"

CantFindMsg == "Can't find indexed pattern item."

QuoteSpecMsg == "Filer: Invalid '_ quote spec!"

DateSpecMsg == "Filer: Invalid 'd_ date spec!"

SeqSpecMsg == "Filer: Invalid 's_ sequence spec!"

SeqDigitMsg == "Filer: Sequence digit count must be 1-9!"

Say(st, msg) == [st EXCEPT !.msgs = Append(@, msg)]

\* print(msg); sys.exit(2)
Exit2(st, msg) == [Say(st, msg) EXCEPT !.exc = "exit2"]

\* self.nn[self.nnp] = ch; self.nnp += 1
PutChar(st, ch) ==
    IF st.nnp >= FNLEN THEN [st EXCEPT !.exc = "IndexError"]
    ELSE [st EXCEPT !.nn = Append(@, ch), !.nnp = @ + 1]

RECURSIVE insert_string(_, _)
insert_string(s, st) ==
    IF s = <<>> THEN st
    ELSE insert_string(Tail(s), IF st.nnp < FNLEN THEN PutChar(st, Head(s))
                                ELSE st)

\* the loop of rb_copy over a table row, from cell tk
RECURSIVE copy_cells(_, _, _)
copy_cells(line, tk, st) ==
    IF st.exc = "none" /\ tk < FNLEN /\ tk < Len(line)
    THEN copy_cells(line, tk + 1, PutChar(st, line[tk + 1]))
    ELSE st

\* rb_copy with tk starting at 0: the marker cell is copied too
rb_copy_from_marker(tb, where, st) == copy_cells(tb[where], 0, st)

rb_copy(tb, where, st) == copy_cells(tb[where], 1, st)

get_digit(tpl, l) ==
    IF l + 1 >= Len(tpl) \/ tpl[l + 2] # "'" THEN 0
    ELSE IF l + 2 >= Len(tpl) THEN 99
    ELSE IF IsDigit(tpl[l + 3]) /\ DigitVal(tpl[l + 3]) >= 1
         THEN DigitVal(tpl[l + 3])
         ELSE 99

\* the while loop of rb_star / rb_qmark: the slot of the dg-th row with the
\* given marker, or TableSize
RECURSIVE find_where(_, _, _, _)
find_where(tb, marker, temp_dg, where) ==
    IF temp_dg # 0 /\ where < TableSize
    THEN LET t == IF Len(tb[where]) > 0 /\ tb[where][1] = marker
                  THEN temp_dg - 1 ELSE temp_dg
         IN  find_where(tb, marker, t, IF t > 0 THEN where + 1 ELSE where)
    ELSE where

rb_star(tpl, tb, st) ==
    LET dg == get_digit(tpl, st.l + 1) IN
    IF dg = 99 THEN Say(st, PatternIndexMsg)
    ELSE LET n == IF dg = 0 THEN st.stk + 1 ELSE dg
             st1 == [st EXCEPT !.stk = n]
             where == find_where(tb, "*", n, 0)
         IN  IF where >= TableSize \/ tb[where] = <<>>
             THEN Say(st1, CantFindMsg)
             ELSE rb_copy(tb, where, st1)

rb_qmark(tpl, tb, st) ==
    LET dg == get_digit(tpl, st.l + 1) IN
    IF dg = 99 THEN Say(st, PatternIndexMsg)
    ELSE LET n == IF dg = 0 THEN st.qmk + 1 ELSE dg
             st1 == [st EXCEPT !.qmk = n]
             where == find_where(tb, "?", n, 0)
         IN  IF where >= TableSize \/ tb[where] = <<>>
             THEN Say(st1, CantFindMsg)
             ELSE rb_copy(tb, where, st1)

\* l is the position of the 'd'; the result's l is the position to go on from
rb_date(tpl, l, now, st) ==
    IF l + 1 >= Len(tpl) THEN Exit2(st, DateSpecMsg)
    ELSE IF tpl[l + 2] \in DateCodes
         THEN [insert_string(strftime(now, tpl[l + 2]), st) EXCEPT !.l = l + 2]
         ELSE Exit2(st, DateSpecMsg)

\* l is the position of the 's'
rb_seq(tpl, l, seq, st) ==
    IF l + 1 >= Len(tpl) THEN Exit2(st, SeqSpecMsg)
    ELSE IF ~IsDigit(tpl[l + 2]) THEN Exit2(st, SeqSpecMsg)
    ELSE IF DigitVal(tpl[l + 2]) < 1 THEN Exit2(st, SeqDigitMsg)
    ELSE [insert_string(zfill(str(seq), DigitVal(tpl[l + 2])), st)
             EXCEPT !.l = l + 2]

\* st.l is the position of the quote
rb_quote(tpl, now, seq, st) ==
    LET l == st.l + 1 IN
    IF l < Len(tpl)
    THEN IF tpl[l + 1] = "d" THEN rb_date(tpl, l, now, st)
         ELSE IF tpl[l + 1] = "s" THEN rb_seq(tpl, l, seq, st)
         ELSE Exit2(st, QuoteSpecMsg)
    ELSE [st EXCEPT !.l = l]

Step(st) == [st EXCEPT !.l = @ + 1]

\* the while loop of rebuild
RECURSIVE rebuild_loop(_, _, _, _, _)
rebuild_loop(tpl, tb, now, seq, st) ==
    IF st.exc # "none" \/ st.l >= Len(tpl) THEN st
    ELSE LET c == tpl[st.l + 1] IN
         rebuild_loop(tpl, tb, now, seq,
            IF c = "*" THEN Step(rb_star(tpl, tb, st))
            ELSE IF c = "?" THEN Step(rb_qmark(tpl, tb, st))
            ELSE IF c = "'" THEN rb_quote(tpl, now, seq, st)
            ELSE Step(PutChar(st, c)))

rebuild(tpl, tb, now, seq) ==
    rebuild_loop(tpl, tb, now, seq,
                 [l |-> 0, nn |-> <<>>, nnp |-> 0, stk |-> 0, qmk |-> 0,
                  msgs |-> <<>>, exc |-> "none"])

\* nn[0..nnp-1] without its empty cells
get_rebuilt_name(buf, n) == SubSeq(buf, 1, IF n < Len(buf) THEN n ELSE Len(buf))

-----------------------------------------------------------------------------
(* Inputs: the command line (p, r, include_dots) and the directory listing *)

NameChars == {"a", "b", "?", "."}

PatChars == {"a", "*", "?"}

TplChars == {"x", "*", "?", "'", "2", "s", "d"}

\* os.listdir yields distinct, non-empty names, never "." or ".."
Names == Strings(NameChars, MaxNameLen) \ {<<>>, <<".">>, <<".", ".">>}

Listings(S, n) ==
    {fs \in Strings(S, n) : \A i, j \in 1..Len(fs) : i # j => fs[i] # fs[j]}

\* a name and a pattern one longer than the capture table
LongName == Rep("a", TableSize + 1)

LongPattern == Rep("?", TableSize + 1)

\* a name and a pattern that fill the capture table exactly
FullName == Rep("a", TableSize)

FullPattern == Rep("?", TableSize)

\* 37 compact dates fill 296 of the FNLEN cells of the output buffer
DateFill == Concat(Rep(<<"'", "d", "s">>, 37))

RebuildPatterns == {<<"*", "b", "*">>, <<"?", "*">>}

LongTemplates ==
    {DateFill \o <<"a", "b", "c", "d">>,
     DateFill \o <<"a", "b", "c", "d", "e">>,
     DateFill \o <<"x", "x", "x", "x", "*">>,
     DateFill \o <<"'", "d", "s">>,
     DateFill \o <<"'", "s", "9">>}

IndexTemplates ==
    {<<"*", "'", "2", "*", "'", "1">>,
     <<"*", "'", "1", "*", "'", "2">>,
     <<"*", "'", "2", "b", "*", "'", "1">>,
     <<"*", "'", "5">>,
     <<"*", "x", "'", "5">>,
     <<"*", "x", "'", "s", "2">>,
     <<"?", "x", "'", "d", "Y">>,
     <<"*", "-", "?", "-", "*", "-", "?">>,
     <<"x", "'", "s", "0">>,
     <<"x", "'", "d", "q">>}

RunPatterns == {<<"*">>, <<"a", "*">>}

RunTemplates ==
    {<<"f", "i", "l", "e", "'", "s", "3">>,
     <<"'", "s", "1">>,
     <<"*", "-", "'", "s", "2", ".", "x">>,
     <<"x">>,
     <<"'", "s", "x">>}

DirNames == {<<"a">>, <<"a", "b">>, <<"a", "b", "c">>, <<"b", "a">>,
             <<".", "a", "b">>}

\* eleven entries, so that the counter outgrows one digit
LongListing == [i \in 1..(TableSize + 1) |-> Rep("a", i)]

Start ==
    /\ idx = 0
    /\ pc = "clear"
    /\ matched = FALSE
    /\ table = EmptyTable
    /\ nn = <<>>
    /\ nnp = 0
    /\ stk = 0
    /\ qmk = 0
    /\ seq_number = 1
    /\ msgs = <<>>
    /\ out = <<>>
    /\ status = "running"

\* one entry, the rebuild template equal to the match pattern
InitMatch ==
    /\ p \in Strings(PatChars, MaxPatLen) \cup {LongPattern, FullPattern}
    /\ r = p
    /\ include_dots \in BOOLEAN
    /\ \E f \in Names \cup {LongName, FullName} : files = <<f>>

\* one entry "abc", every short template and the long ones
InitRebuild ==
    /\ p \in RebuildPatterns
    /\ r \in Strings(TplChars, MaxTplLen) \cup IndexTemplates \cup LongTemplates
    /\ include_dots = FALSE
    /\ files = <<<<"a", "b", "c">>>>

\* a listing of several entries
InitRun ==
    /\ p \in RunPatterns
    /\ r \in RunTemplates
    /\ include_dots \in BOOLEAN
    /\ files \in Listings(DirNames, MaxFiles) \cup {LongListing}

Init ==
    /\ Start
    /\ \/ InitMatch
       \/ InitRebuild
       \/ InitRun

-----------------------------------------------------------------------------
(* process_files: one pass of the for loop is ClearTable, Match and, when  *)
(* the match succeeded, Rebuild and Emit.                                  *)

\* the entry the loop is at
filename == files[idx + 1]

ClearTable ==
    /\ status = "running"
    /\ pc = "clear"
    /\ idx < Len(files)
    /\ table' = EmptyTable
    /\ pc' = "match"
    /\ UNCHANGED <<p, r, include_dots, files, idx, matched, nn, nnp, stk, qmk,
                   seq_number, msgs, out, status>>

Match ==
    /\ status = "running"
    /\ pc = "match"
    /\ LET m == match(filename, p, 0, 0, 0, table, include_dots) IN
       /\ table' = m.table
       /\ matched' = m.ok
       /\ status' = IF m.exc = "none" THEN status ELSE m.exc
       /\ idx' = IF m.exc = "none" /\ ~m.ok THEN idx + 1 ELSE idx
       /\ pc' = IF m.exc # "none" THEN pc
                ELSE IF m.ok THEN "rebuild" ELSE "clear"
    /\ UNCHANGED <<p, r, include_dots, files, nn, nnp, stk, qmk, seq_number,
                   msgs, out>>

Rebuild ==
    /\ status = "running"
    /\ pc = "rebuild"
    /\ \E now \in Clocks :
         LET st == rebuild(r, table, now, seq_number) IN
         /\ nn' = st.nn
         /\ nnp' = st.nnp
         /\ stk' = st.stk
         /\ qmk' = st.qmk
         /\ msgs' = st.msgs
         /\ status' = IF st.exc = "none" THEN status ELSE st.exc
         /\ pc' = IF st.exc = "none" THEN "emit" ELSE pc
    /\ UNCHANGED <<p, r, include_dots, files, idx, matched, table, seq_number,
                   out>>

\* Emit without the increment of the sequence number
Emit_no_increment ==
    /\ status = "running"
    /\ pc = "emit"
    /\ out' = Append(out, [path |-> filename, name |-> get_rebuilt_name(nn, nnp)])
    /\ idx' = idx + 1
    /\ pc' = "clear"
    /\ UNCHANGED <<p, r, include_dots, files, matched, table, nn, nnp, stk, qmk,
                   seq_number, msgs, status>>

\* the output line (without the command prefix and the quoting) and the
\* increment of the sequence number
Emit ==
    /\ status = "running"
    /\ pc = "emit"
    /\ out' = Append(out, [path |-> filename, name |-> get_rebuilt_name(nn, nnp)])
    /\ seq_number' = seq_number + 1
    /\ idx' = idx + 1
    /\ pc' = "clear"
    /\ UNCHANGED <<p, r, include_dots, files, matched, table, nn, nnp, stk, qmk,
                   msgs, status>>

\* the listing is exhausted: process_files and main return
Finish ==
    /\ status = "running"
    /\ pc = "clear"
    /\ idx = Len(files)
    /\ status' = "exit0"
    /\ pc' = "done"
    /\ UNCHANGED <<p, r, include_dots, files, idx, matched, table, nn, nnp, stk,
                   qmk, seq_number, msgs, out>>

Next ==
    \/ ClearTable
    \/ Match
    \/ Rebuild
    \/ Emit
    \/ Finish

Spec == Init /\ [][Next]_vars

-----------------------------------------------------------------------------
(* What the properties below are stated with *)

Wildcards == {"*", "?"}

IndexDigits == {"1", "2", "3", "4", "5", "6", "7", "8", "9"}

CountWild(s) == Cardinality({i \in 1..Len(s) : s[i] \in Wildcards})

NoQuote(s) == \A i \in 1..Len(s) : s[i] # "'"

CleanName(s) == \A i \in 1..Len(s) : s[i] \notin Wildcards /\ s[i] # "'"

Without(s, i) == SubSeq(s, 1, i - 1) \o SubSeq(s, i + 1, Len(s))

\* the non-empty rows of the table, in slot order
RECURSIVE Rows(_, _)
Rows(tb, k) ==
    IF k >= TableSize THEN <<>>
    ELSE (IF tb[k] = <<>> THEN <<>> ELSE <<tb[k]>>) \o Rows(tb, k + 1)

\* the captured texts of one kind, in table order
RECURSIVE Texts(_, _)
Texts(rows, marker) ==
    IF rows = <<>> THEN <<>>
    ELSE (IF Head(rows)[1] = marker THEN <<Tail(Head(rows))>> ELSE <<>>)
         \o Texts(Tail(rows), marker)

NonEmptyPrefix(tb) ==
    \A k \in 0..(TableSize - 1) :
        tb[k] # <<>> => \A j \in 0..(k - 1) : tb[j] # <<>>

\* Match has acted on the entry and returned True / returned False
MatchReturnedTrue == pc = "rebuild" /\ status = "running"

MatchReturnedFalse == pc \in {"clear", "done"} /\ idx > 0 /\ ~matched

\* Rebuild has acted on the entry the loop is at
AfterRebuild == pc = "emit" \/ (pc = "rebuild" /\ status # "running")

\* The template language as the specification words it: a wildcard
\* reference with an optional 'n index, 'd<code>, 's<n>, literals.
\* undefined marks the templates whose meaning the specification leaves
\* open (a quote with nothing after it, a wildcard's quote without a digit
\* 1-9).
Meaning0 ==
    [name |-> <<>>, sc |-> 0, qc |-> 0, fatal |-> FALSE, undefined |-> FALSE,
     unresolved |-> FALSE, indexed |-> FALSE]

RECURSIVE Meaning(_, _, _, _, _, _, _)
Meaning(tpl, l, stars, qmarks, now, seq, acc) ==
    IF l > Len(tpl) \/ acc.fatal \/ acc.undefined THEN acc
    ELSE IF tpl[l] \in Wildcards
    THEN LET caps == IF tpl[l] = "*" THEN stars ELSE qmarks
             explicit == l < Len(tpl) /\ tpl[l + 1] = "'"
         IN  IF explicit /\ ~(l + 2 <= Len(tpl) /\ tpl[l + 2] \in IndexDigits)
             THEN [acc EXCEPT !.undefined = TRUE]
             ELSE LET n == IF explicit THEN DigitVal(tpl[l + 2])
                           ELSE IF tpl[l] = "*" THEN acc.sc + 1 ELSE acc.qc + 1
                      found == n <= Len(caps)
                  IN  Meaning(tpl, IF explicit THEN l + 3 ELSE l + 1, stars,
                              qmarks, now, seq,
                              [acc EXCEPT
                                 !.name = IF found THEN @ \o caps[n] ELSE @,
                                 !.sc = IF tpl[l] = "*" THEN n ELSE @,
                                 !.qc = IF tpl[l] = "?" THEN n ELSE @,
                                 !.unresolved = @ \/ ~found,
                                 !.indexed = @ \/ explicit])
    ELSE IF tpl[l] = "'"
    THEN IF l = Len(tpl) THEN [acc EXCEPT !.undefined = TRUE]
         ELSE IF tpl[l + 1] = "d" /\ l + 2 <= Len(tpl) /\ tpl[l + 2] \in DateCodes
         THEN Meaning(tpl, l + 3, stars, qmarks, now, seq,
                      [acc EXCEPT !.name = @ \o strftime(now, tpl[l + 2])])
         ELSE IF tpl[l + 1] = "s" /\ l + 2 <= Len(tpl) /\ tpl[l + 2] \in IndexDigits
         THEN Meaning(tpl, l + 3, stars, qmarks, now, seq,
                      [acc EXCEPT !.name = @ \o zfill(str(seq), DigitVal(tpl[l + 2]))])
         ELSE [acc EXCEPT !.fatal = TRUE]
    ELSE Meaning(tpl, l + 1, stars, qmarks, now, seq,
                 [acc EXCEPT !.name = Append(@, tpl[l])])

\* the meaning of r for the entry the loop is at
Meant(now) ==
    Meaning(r, 1, Texts(Rows(table, 0), "*"), Texts(Rows(table, 0), "?"), now,
            seq_number, Meaning0)

\* the meaning does not depend on the clock where it is fatal or undefined
AnyClock == CHOOSE now \in Clocks : TRUE

Fits(m) == Len(m.name) <= FNLEN

-----------------------------------------------------------------------------
(* Properties *)

\* f is pat with its only wildcard, a star, replaced by the empty string
StarRemovable(f, pat) ==
    /\ CountWild(pat) = 1
    /\ \E i \in 1..Len(pat) : pat[i] = "*" /\ f = Without(pat, i)

DotAllowed(f) == include_dots \/ ~StartsWithDot(f)

\* C1: a star matches the empty run: whenever the filename is the pattern
\* with its one star replaced by the empty string (and is not an excluded
\* dotfile), match returns True and leaves a Star record with empty text.
C1_StarMatchesEmpty ==
    /\ MatchReturnedFalse =>
           ~(StarRemovable(files[idx], p) /\ DotAllowed(files[idx]))
    /\ MatchReturnedTrue /\ StarRemovable(filename, p) =>
           Rows(table, 0) = << <<"*">> >>

\* C2: an explicitly indexed reference (*'n, ?'n) appends the n-th capture
\* of its kind, sets that kind's cursor to n, consumes its index characters
\* and lets the rebuild run to completion: after a rebuild of a template
\* with such a reference (every reference resolvable, no malformed escape,
\* the name within FNLEN) the run goes on, the buffer holds the name the
\* template means and the cursors stand at the last indices used.
C2_ExplicitIndex ==
    LET m == Meant(AnyClock) IN
    (AfterRebuild /\ m.indexed /\ ~m.fatal /\ ~m.undefined /\ ~m.unresolved
       /\ Fits(m)) =>
        /\ status = "running"
        /\ \E now \in Clocks : nn = Meant(now).name
        /\ stk = m.sc
        /\ qmk = m.qc

NDigits(k) == Len(str(k))

RECURSIVE ParseInt(_)
ParseInt(ds) ==
    IF ds = <<>> THEN 0
    ELSE 10 * ParseInt(SubSeq(ds, 1, Len(ds) - 1)) + DigitVal(ds[Len(ds)])

AllDigits(ds) == \A i \in 1..Len(ds) : IsDigit(ds[i])

\* the number of entries among the first n of the listing that match
NumMatching(n) ==
    Cardinality({i \in 1..n :
        match(files[i], p, 0, 0, 0, EmptyTable, include_dots).ok})

\* name ends with k zero-padded to d digits, followed by post
EndsWithSeq(name, k, d, post) ==
    LET w == IF NDigits(k) > d THEN NDigits(k) ELSE d
        cut == Len(name) - Len(post)
    IN  /\ cut >= w
        /\ SubSeq(name, cut + 1, Len(name)) = post
        /\ AllDigits(SubSeq(name, cut - w + 1, cut))
        /\ ParseInt(SubSeq(name, cut - w + 1, cut)) = k
        /\ (k < 10 /\ d > 1 => name[cut - w + 1] = "0")

\* C3: the sequence counter starts at 1 and goes up by one exactly with
\* each emitted line, one per matching entry and none for the others; the
\* k-th line of a run whose template holds one 's<d> token followed by
\* literal characters ends with k zero-padded to d digits and those
\* characters.
C3_SequenceCounter ==
    /\ seq_number = 1 + Len(out)
    /\ Len(out) = NumMatching(idx)
    /\ pc \in {"rebuild", "emit"} => NumMatching(idx + 1) = Len(out) + 1
    /\ \A i \in 1..Len(r) :
         (/\ r[i] = "'"
          /\ \A j \in 1..Len(r) : r[j] = "'" => j = i
          /\ i + 2 <= Len(r)
          /\ r[i + 1] = "s"
          /\ r[i + 2] \in IndexDigits
          /\ \A j \in (i + 3)..Len(r) : r[j] \notin Wildcards) =>
             \A k \in 1..Len(out) :
                 EndsWithSeq(out[k].name, k, DigitVal(r[i + 2]),
                             SubSeq(r, i + 3, Len(r)))

\* three lines emitted with file's3, after an entry that did not match
C3_Witness ==
    /\ r = <<"f", "i", "l", "e", "'", "s", "3">>
    /\ Len(out) = 3
    /\ idx > 3
    /\ out[3].name = <<"f", "i", "l", "e", "0", "0", "3">>

\* C4: a match attempt never accesses a capture-table slot outside
\* 0..TableSize-1, however many wildcards the pattern has.
C4_TableAccessInRange == ~(pc = "match" /\ status = "IndexError")

\* C5: rebuild never fails on a name longer than the buffer: the write
\* index stays within the buffer and no rebuild ends in an out-of-range
\* access.
C5_TruncateNeverCrash ==
    /\ nnp <= FNLEN
    /\ ~(pc = "rebuild" /\ status = "IndexError")

NoIndexedRef(tpl) ==
    \A i \in 1..(Len(tpl) - 1) : tpl[i] \in Wildcards => tpl[i + 1] # "'"

\* C6: in a template where no wildcard is immediately followed by the
\* quote, the i-th star reference appends the i-th Star record and the
\* j-th question-mark reference the j-th QuestionMark record, whatever
\* tokens follow: after the rebuild (no malformed escape, the name within
\* FNLEN) the buffer holds the name the template means.
C6_UnindexedInOrder ==
    LET m == Meant(AnyClock) IN
    (AfterRebuild /\ NoIndexedRef(r) /\ ~m.fatal /\ ~m.undefined /\ Fits(m)) =>
        /\ status = "running"
        /\ \E now \in Clocks : nn = Meant(now).name
        /\ stk = m.sc
        /\ qmk = m.qc

\* C7: a malformed quote-escape ends the run with a non-zero status at the
\* first matching entry, with no line emitted and the counter not advanced;
\* a run that meets none (here: a template without any quote) never ends
\* otherwise than normally.
C7_FatalOnlyOnMalformedEscape ==
    LET m == Meant(AnyClock) IN
    /\ NoQuote(r) => status \in {"running", "exit0"}
    /\ (AfterRebuild /\ m.fatal /\ ~m.undefined) =>
           /\ status \in {"exit2", "IndexError"}
           /\ out = <<>>
           /\ seq_number = 1

\* C8: a reference that cannot be resolved is recoverable; stated for the
\* templates with an explicit index: after the rebuild (no malformed
\* escape) the run goes on to emit, the diagnostic was printed and the
\* buffer holds the name the template means, nothing appended for the
\* unresolved reference.
C8_UnresolvedIsRecoverable ==
    LET m == Meant(AnyClock) IN
    (AfterRebuild /\ m.indexed /\ m.unresolved /\ ~m.fatal /\ ~m.undefined
       /\ Fits(m)) =>
        /\ status = "running"
        /\ \E i \in 1..Len(msgs) : msgs[i] = CantFindMsg
        /\ \E now \in Clocks : nn = Meant(now).name

\* the records replayed along the path the matcher takes: equal characters
\* pass without a record, a wildcard takes the next record
RECURSIVE Replay(_, _, _, _, _, _)
Replay(f, pat, fp, pp, rows, i) ==
    IF fp >= Len(f) /\ pp >= Len(pat) THEN i = Len(rows)
    ELSE IF fp >= Len(f) \/ pp >= Len(pat) THEN FALSE
    ELSE IF f[fp + 1] = pat[pp + 1] THEN Replay(f, pat, fp + 1, pp + 1, rows, i)
    ELSE IF pat[pp + 1] = "?"
         THEN /\ i < Len(rows)
              /\ rows[i + 1] = <<"?", f[fp + 1]>>
              /\ Replay(f, pat, fp + 1, pp + 1, rows, i + 1)
    ELSE IF pat[pp + 1] = "*"
         THEN /\ i < Len(rows)
              /\ rows[i + 1][1] = "*"
              /\ LET n == Len(rows[i + 1]) - 1 IN
                 /\ fp + n <= Len(f)
                 /\ SubSeq(f, fp + 1, fp + n) = Tail(rows[i + 1])
                 /\ Replay(f, pat, fp + n, pp + 1, rows, i + 1)
    ELSE FALSE

\* C9: after a match that returned True the non-empty slots are a prefix
\* of the table and hold exactly the records of the successful path.
C9_TableHoldsSuccessfulPath ==
    MatchReturnedTrue =>
        /\ NonEmptyPrefix(table)
        /\ Replay(filename, p, 0, 0, Rows(table, 0), 0)

\* the wildcards of pat replaced by the texts of the records, in order
RECURSIVE Subst(_, _)
Subst(pat, rows) ==
    IF pat = <<>> THEN <<>>
    ELSE IF Head(pat) \in Wildcards
         THEN IF rows = <<>> THEN <<>>
              ELSE Tail(Head(rows)) \o Subst(Tail(pat), Tail(rows))
         ELSE <<Head(pat)>> \o Subst(Tail(pat), rows)

RecordsFit(pat, rows) ==
    /\ Len(rows) = CountWild(pat)
    /\ \A j \in 1..Len(rows) :
         /\ rows[j][1] \in Wildcards
         /\ rows[j][1] = "?" => Len(rows[j]) = 2
         /\ rows[j][1] = "*" => Len(rows[j]) >= 2
    /\ [j \in 1..Len(rows) |-> rows[j][1]] =
           SelectSeq(pat, LAMBDA c : c \in Wildcards)

RoundTripCase ==
    /\ pc \in {"rebuild", "emit"}
    /\ r = p
    /\ CleanName(filename)
    /\ Len(filename) < FNLEN
    /\ NoQuote(p)
    /\ CountWild(p) <= TableSize

\* C10: for a filename without wildcard or quote characters and a pattern
\* without quote and with at most TableSize wildcards, after a successful
\* match the records, substituted in order for the wildcards of the
\* pattern, give the filename, a QuestionMark record has one character and
\* a Star record at least one; the rebuild with the pattern as template
\* completes and yields the filename.
C10_RoundTrip ==
    RoundTripCase =>
        /\ status = "running"
        /\ NonEmptyPrefix(table)
        /\ RecordsFit(p, Rows(table, 0))
        /\ Subst(p, Rows(table, 0)) = filename
        /\ pc = "emit" => get_rebuilt_name(nn, nnp) = filename

\* a round trip through a star, a literal and a question mark
C10_Witness ==
    /\ RoundTripCase
    /\ pc = "emit"
    /\ p = <<"*", "a", "?">>
    /\ filename = <<"b", "a", "b">>
    /\ nn = <<"b", "a", "b">>

=============================================================================
